---- MODULE Spec2Model ----
(***************************************************************************)
(* The web clients of the rush chess engine, as state machines.            *)
(*                                                                         *)
(* Spec      : the token-protocol client of src/www/src/index.js.  Its     *)
(*             state is the module-level globals of that file (legals,     *)
(*             role, playing, src, dst, socket) and the parts of the page  *)
(*             its handlers write (the board element, the texts, the       *)
(*             promote pop-up).  One action per event handler.             *)
(* SpecInbound: that client with a user who only watches, receiving also   *)
(*             frames whose status code or move list it has no case for.   *)
(* SpecBoard : the Svelte Board component of src/www/src/Board.svelte      *)
(*             (lines 1-152), which takes the game and the engine's state  *)
(*             as JSON objects and asks a local chess oracle for legality. *)
(* SpecDraft : the first draft of that component, kept in                  *)
(*             src/server/protocol.md (lines 177-311), whose message       *)
(*             handler assigns through `this'.                             *)
(* SpecFinal : the later version of the component, in the same file        *)
(*             (lines 271-473), which takes whole states, asks for the     *)
(*             promotion piece and lets the user set the thinking time.    *)
(* SpecCanvas: the canvas client of src/www/index.js (lines 1-311), which  *)
(*             selects squares by clicks.                                  *)
(*                                                                         *)
(* SpecCanvasMoves: that client once the valid destinations of the        *)
(*             position have been stored in validMoves.                    *)
(* SpecRender: what the token client and the component show of the game:   *)
(*             the move history and the text of an ended game.             *)
(*                                                                         *)
(* Every specification starts with each client in its initial state; but   *)
(* for SpecRender it runs one of them, and the others stay as they are.    *)
(*                                                                         *)
(* Strings are JavaScript strings, `\o' is `+'.  A frame is the array      *)
(* msg.data.split(" ") yields: a tuple of tokens, args[k] of the source    *)
(* being args[k+1] here.                                                   *)
(***************************************************************************)
EXTENDS Integers, Sequences, FiniteSets, TLC

\* ------------------------------------------------------------------ values

\* JavaScript's null and undefined; only their identity matters.
Null == "null"
Undefined == "undefined"

\* const ROLE: an enumeration, compared with === only.
ROLE == [Spectator |-> "Spectator", White |-> "White", Black |-> "Black"]

\* The squares of the board the model keeps, and the drop target of a piece
\* released outside the board.
Squares == {"e2", "e4", "e7", "e8"}
Offboard == "offboard"
Targets == Squares \cup {Offboard}

\* A piece is the two-character code of chessboard-element, <<colour, kind>>;
\* NoPiece is an empty square.
NoPiece == <<>>
wP == <<"w", "P">>
bP == <<"b", "P">>

\* A position with no piece, and positions by their occupied squares.
EmptyBoard == [s \in Squares |-> NoPiece]
Place(pos, s, piece) == [pos EXCEPT ![s] = piece]
PosStart == Place(Place(EmptyBoard, "e2", wP), "e7", bP)
PosPushed == Place(Place(EmptyBoard, "e4", wP), "e7", bP)
PosPromote == Place(Place(EmptyBoard, "e7", wP), "e4", bP)
Positions == {PosStart, PosPushed, PosPromote}

\* The promotion suffixes of the pop-up's four buttons.
PromotionPieces == {"q", "r", "b", "n"}

\* ------------------------------------------------------------ inbound frames

\* The comma-separated legal-move lists the server may send, already cut at
\* the commas: a pawn push, the four promotions of a pawn, two of them, an
\* under-promotion alone.
LegalLists ==
    { <<"e2e4">>,
      <<"e7e8q", "e7e8r", "e7e8b", "e7e8n">>,
      <<"e7e8q", "e7e8r">>,
      <<"e7e8r">> }

RoleTokens == {"s", "w", "b"}

\* Well-formed "info <role> <legals>" frames: White with each list, a
\* spectator and Black with one list each.
InfoFrames ==
    { f \in { <<"info", r, l>> : r \in RoleTokens, l \in LegalLists } :
        \/ f[2] = "w"
        \/ f[2] = "s" /\ f[3] = <<"e2e4">>
        \/ f[2] = "b" /\ Len(f[3]) = 4 }

\* Well-formed "state <position> <history> <status>" frames, the history cut
\* at its commas: the states of a short game as the server reports them.
StateFrames ==
    { <<"state", PosStart, <<"">>, "w">>,
      <<"state", PosPushed, <<"", "e2e4">>, "b">>,
      <<"state", PosPromote, <<"", "e2e4", "e7e5">>, "w">>,
      <<"state", PosPromote, <<"", "e2e4", "e7e5">>, "d">> }

\* "state" frames whose status is a code of the one-letter alphabet
\* [wbdWBmM] that parseStatus has no case for: the checkmates m and M.
CodedStateFrames ==
    { <<"state", PosPromote, <<"", "e2e4", "e7e5">>, c>> : c \in {"m", "M"} }

\* Malformed frames: an unknown leading token, and a known one with
\* arguments missing.
UnknownFrames == { <<"xyz", "foo">> }
ShortInfoFrames == { <<"info", "w">> }
ShortStateFrames == { <<"state", PosPushed>> }

\* An "info" frame with the right number of tokens whose move list holds a
\* text that is no move.
BadMoveFrames == { <<"info", "s", <<"zz">>>> }

\* --------------------------------------------------------------------- state

VARIABLES
    \* globals of src/www/src/index.js
    legals,             \* var legals: the set of legal move strings
    role,               \* var role
    playing,            \* var playing: the role whose turn it is
    src,                \* var src
    dst,                \* var dst
    socket,             \* var socket: Null, or the WebSocket's readyState
    \* the page
    boardPos,           \* $("board"): the position shown
    orientation,        \* $("board").orientation
    draggablePieces,    \* $("board").draggablePieces
    promoteVisible,     \* $("promote").style.visibility = "visible"
    portraits,          \* colour of the pieces rendered in the pop-up
    movesText,          \* $("moves").innerHTML
    statusText,         \* $("status").innerHTML
    roleText,           \* $("role").innerHTML
    \* the environment
    dragging,           \* the square of the piece being dragged, or Null
    opened,             \* how many WebSockets the session has constructed
    notices,            \* how many notices the user has been shown
    \* what the handler that ran last did
    sent,               \* the frames it passed to socket.send, in order
    thrown,             \* whether an exception escaped it
    action,             \* what the board did with a gesture: "drop", "snapback",
                        \* "ignored" (a press it did not take); else "none"
    \* history variables
    stateRun,           \* "state" frames applied in a row just now
    reqMove             \* src + dst when the pending pop-up was opened

pageVars == <<boardPos, orientation, draggablePieces, promoteVisible, portraits,
              movesText, statusText, roleText>>
globalVars == <<legals, role, playing, src, dst, socket>>
vars == <<globalVars, pageVars, dragging, opened, notices, sent, thrown, action,
          stateRun, reqMove>>

\* The longest run of "state" frames the history variable counts.
MaxRun == 2


\* ------------------------------------------------------------------- parsing

\* parseRole: a role code to a role; the switch has no default, so any other
\* string (and undefined) yields undefined.
parseRole(s) ==
    CASE s = "s" -> ROLE.Spectator
      [] s = "w" -> ROLE.White
      [] s = "b" -> ROLE.Black
      [] OTHER -> Undefined

\* The loop of parseHistory over the split history: i starts at 1, so
\* split[0] is never shown; j numbers the full moves.
RECURSIVE HistoryLoop(_, _, _, _)
HistoryLoop(split, i, j, res) ==
    IF i < Len(split)
    THEN LET res1 == res \o ToString(j + 1) \o ". " \o split[i + 1]
         IN  IF i + 1 < Len(split)
             THEN HistoryLoop(split, i + 2, j + 1, res1 \o " " \o split[i + 2] \o " ")
             ELSE HistoryLoop(split, i + 1, j + 1, res1)
    ELSE res

\* parseHistory with the loop started at split[0].
parseHistoryFromFirst(split) == HistoryLoop(split, 0, 0, "")

\* parseHistory: the text written to $("moves").
parseHistory(split) == HistoryLoop(split, 1, 0, "")

\* parseStatus, first switch: whose turn the status code says it is.
StatusPlayingDrawIsTurn(s) ==
    CASE s = "w" -> ROLE.White
      [] s = "b" -> ROLE.Black
      [] s = "d" -> ROLE.White
      [] OTHER -> Null
StatusPlaying(s) ==
    CASE s = "w" -> ROLE.White
      [] s = "b" -> ROLE.Black
      [] OTHER -> Null

\* parseStatus, the rest: the text of $("status") once playing is `p';
\* `old' stays when no case of the second switch matches.
StatusText(s, p, old) ==
    IF role = p THEN "It's your turn!"
    ELSE CASE s = "w" -> "It's white's turn"
           [] s = "b" -> "It's black's turn"
           [] s = "d" -> "The game is drawn"
           [] s = "wm" -> "White won by checkmate"
           [] s = "bm" -> "Black won by checkmate"
           [] OTHER -> old

\* The status codes of an ended game, of the second switch of parseStatus.
TerminalStatus(s) == s \in {"d", "wm", "bm"}

\* GameState as the client keeps it: the turn owner is `playing', and the
\* reason the game ended is the one $("status") shows.
turnOwner == playing
terminalReason ==
    CASE statusText = "The game is drawn" -> "Draw"
      [] statusText = "White won by checkmate" -> "CheckmateWhite"
      [] statusText = "Black won by checkmate" -> "CheckmateBlack"
      [] OTHER -> "None"

\* parseInfo, the switch on the new role: the text of $("role").
RoleText(r, old) ==
    CASE r = ROLE.Spectator -> "You are spectating"
      [] r = ROLE.White -> "You are playing as white"
      [] r = ROLE.Black -> "You are playing as black"
      [] OTHER -> old

\* parseInfo, the same switch: the board's orientation.
RoleOrientation(r, oldRole, old) ==
    CASE r = ROLE.White /\ oldRole # r -> "white"
      [] r = ROLE.Black /\ oldRole # r -> "black"
      [] OTHER -> old

\* new Set(args[2].split(",")): "".split(",") is [""].
SplitLegals(list) == { list[k] : k \in 1..Len(list) }

\* ------------------------------------------------------------ step outputs

\* A handler that sends nothing, throws nothing and is no drop.
Quiet == sent' = <<>> /\ thrown' = FALSE /\ action' = "none"

\* socket.send(frame) by a handler that does nothing else observable: a
\* WebSocket still connecting throws InvalidStateError, an open or closed one
\* takes the frame (a closed one discards it).
SendThrows == socket = "connecting"
SocketSend(frame) ==
    /\ sent' = IF SendThrows THEN <<>> ELSE <<frame>>
    /\ thrown' = SendThrows

\* The frames of the last handler that left on the wire.
wire == IF socket = "open" THEN sent ELSE <<>>

\* The pieces the promote pop-up offers: its four buttons, each given a click
\* listener once at load and a portrait whenever the pop-up is opened, are
\* there whenever it is visible.
Offered == IF promoteVisible THEN PromotionPieces ELSE {}

\* The board with the piece on `from' moved to `to' (a pawn promoted to
\* `promotion' when one is given).
MovePiece(pos, from, to, promotion) ==
    LET piece == IF promotion = "" THEN pos[from] ELSE <<pos[from][1], promotion>>
    IN  IF to \in Squares /\ pos[from] # NoPiece
        THEN [pos EXCEPT ![from] = NoPiece, ![to] = piece]
        ELSE pos


\* ---------------------------------------------- the Svelte Board: its state

\* A FEN is kept as <<piece placement, side to move>>; fen.split(" ")[0] is
\* its first field.
FenPlacement(f) == f[1]
StartFen == <<PosStart, "w">>
PushedFen == <<PosPushed, "b">>
PromoteFen == <<PosPromote, "w">>

\* The JSON objects the server pushes, as JSON.parse yields them: any subset
\* of the fields fen, history, end, thinking, engineMove, engineDepth.  A
\* JSON number that may also be null is kept as its text.
Pushes ==
    { [thinking |-> TRUE],
      [thinking |-> FALSE],
      [thinking |-> FALSE, engineMove |-> "g1f3", engineDepth |-> "12"],
      [engineMove |-> "e2e4", engineDepth |-> "3"],
      [fen |-> PushedFen, history |-> <<"e2e4">>, end |-> FALSE],
      [fen |-> PromoteFen, history |-> <<"e2e4", "e7e5">>, end |-> TRUE],
      [fen |-> StartFen, history |-> <<>>, end |-> FALSE, thinking |-> FALSE,
       engineMove |-> Null, engineDepth |-> Null] }

\* What stands for "no push yet", and for a frame JSON.parse rejects.
NoData == [kind |-> "none"]
Unparsable == [kind |-> "unparsable"]

VARIABLES
    \* the component's variables
    fen,                \* let fen
    history,            \* let history
    end,                \* let end
    thinking,           \* let thinking
    engineMove,         \* let engineMove
    engineDepth,        \* let engineDepth
    ws,                 \* let ws: Undefined, or the WebSocket's readyState
    chess,              \* let chess: whether the oracle has been created, and
                        \* the FEN and end flag it was last given
    board,              \* let board: the position the <chess-board> shows
    flipped,            \* whether board.flip() has turned the board
    expando,            \* the properties handlers have added to the WebSocket
    \* history variable
    lastData            \* the object the last inbound frame parsed to

componentVars == <<fen, history, end, thinking, engineMove, engineDepth, ws, chess,
                   board, flipped, expando, lastData>>

\* The legacy client's own state.
tokenVars == <<globalVars, pageVars, dragging, stateRun, reqMove>>

\* The component as its script leaves it, before onMount has run: the
\* <chess-board> element is given no position.
InitBoard ==
    /\ fen = StartFen
    /\ history = <<>>
    /\ end = FALSE
    /\ thinking = FALSE
    /\ engineMove = Null
    /\ engineDepth = Null
    /\ ws = Undefined
    /\ chess = [created |-> FALSE, fen |-> StartFen, end |-> FALSE]
    /\ board = EmptyBoard
    /\ flipped = FALSE
    /\ expando = <<>>
    /\ lastData = NoData

\* --------------------------------- the later Svelte Board: its further state

\* The durations of the pop-up's buttons, as JSON.stringify writes them.
Durations == {"1", "3", "5", "10"}

\* The states the server pushes to the later component, which reads every
\* field of each: the six fields are always there.
FullPush(f, h, e, t, m, d) ==
    [fen |-> f, history |-> h, end |-> e, thinking |-> t, engineMove |-> m,
     engineDepth |-> d]
FullPushes ==
    { FullPush(StartFen, <<>>, FALSE, FALSE, Null, "0"),
      FullPush(StartFen, <<>>, FALSE, TRUE, Null, "0"),
      FullPush(StartFen, <<>>, FALSE, TRUE, "e2e4", "3"),
      FullPush(StartFen, <<>>, FALSE, FALSE, "e2e4", "3"),
      FullPush(PushedFen, <<"e2e4">>, FALSE, FALSE, Null, "0"),
      FullPush(PromoteFen, <<"e2e4", "e7e5">>, FALSE, FALSE, Null, "0"),
      FullPush(PromoteFen, <<"e2e4", "e7e5">>, TRUE, FALSE, Null, "0") }

VARIABLES
    seconds,            \* let seconds: the JSON text of the number, or Null
    choosingPromotion,  \* let choosingPromotion
    promoteMove         \* let promoteMove

finalVars == <<seconds, choosingPromotion, promoteMove>>

\* The further variables as their declarations leave them.
InitFinal ==
    /\ seconds = "5"
    /\ choosingPromotion = FALSE
    /\ promoteMove = Null

\* ---------------------------------------------- the canvas client: its state

\* const ROLE of the canvas client.
CanvasROLE == [white |-> 0, black |-> 1, guest |-> 2]

\* const PIECE, by name: the role of each piece; NoPieceName is an empty
\* entry of the board array.
NoPieceName == ""
PieceRole(name) == IF name = "wPawn" THEN CanvasROLE.white ELSE CanvasROLE.black

\* Board coordinates.
Coords == 0..7

\* The values of a variable that is undefined, null or a Square.
NoSquare == <<"undefined">>
NullSquare == <<"null">>

VARIABLES
    canvas_socket,      \* var socket: Undefined, or the WebSocket's readyState
    canvas_role,        \* var role
    select,             \* var select
    validMoves,         \* var validMoves: the squares of the array, if any
    canvas_board,       \* var board: the piece names by <<x, y>>, where there
                        \* is a piece
    canvas_playing,     \* var playing
    canvas_promote,     \* var promote
    atlas,              \* the atlas image: "none", "loading", "loaded"
    console             \* the text the last handler passed to console.log

canvasVars == <<canvas_socket, canvas_role, select, validMoves, canvas_board,
                canvas_playing, canvas_promote, atlas, console>>

\* The state of all clients.
allVars == <<vars, componentVars, finalVars, canvasVars>>

\* The globals of the canvas client as their declarations leave them.
InitCanvas ==
    /\ canvas_socket = Undefined
    /\ canvas_role = CanvasROLE.white
    /\ select = NoSquare
    /\ validMoves = <<>>
    /\ canvas_board = <<>>
    /\ canvas_playing = TRUE
    /\ canvas_promote = NoSquare
    /\ atlas = "none"
    /\ console = ""

\* -------------------------------------------------------------------- Init

\* The state once the script has been evaluated, before the load event: the
\* initial values of the globals, and the page as served (the board in its
\* start position, draggable pieces, the pop-up hidden, the texts empty).
Init ==
    /\ legals = {}
    /\ role = Null
    /\ playing = Null
    /\ src = Null
    /\ dst = Null
    /\ socket = Null
    /\ boardPos = PosStart
    /\ orientation = "white"
    /\ draggablePieces = TRUE
    /\ promoteVisible = FALSE
    /\ portraits = ""
    /\ movesText = ""
    /\ statusText = ""
    /\ roleText = ""
    /\ dragging = Null
    /\ opened = 0
    /\ notices = 0
    /\ sent = <<>>
    /\ thrown = FALSE
    /\ action = "none"
    /\ stateRun = 0
    /\ reqMove = Null
    /\ InitBoard
    /\ InitFinal
    /\ InitCanvas

\* ------------------------------------------------------- the socket's events

\* window.onload: the socket is constructed and the handlers are registered;
\* every other handler below runs only after this one.
WindowLoad ==
    /\ socket = Null
    /\ socket' = "connecting"
    /\ opened' = opened + 1
    /\ Quiet
    /\ stateRun' = 0
    /\ UNCHANGED <<legals, role, playing, src, dst, pageVars, dragging, notices, reqMove>>

\* The connection is established; the client registers no onopen handler.
SocketOpened ==
    /\ socket = "connecting"
    /\ socket' = "open"
    /\ Quiet
    /\ stateRun' = 0
    /\ UNCHANGED <<legals, role, playing, src, dst, pageVars, dragging, opened, notices, reqMove>>

\* The connection closes or fails; the client registers no onclose and no
\* onerror handler, so nothing of the client runs.
SocketClosedReconnects ==
    /\ socket \in {"connecting", "open"}
    /\ socket' = "connecting"
    /\ opened' = opened + 1
    /\ Quiet
    /\ stateRun' = 0
    /\ UNCHANGED <<legals, role, playing, src, dst, pageVars, dragging, notices, reqMove>>
SocketClosed ==
    /\ socket \in {"connecting", "open"}
    /\ socket' = "closed"
    /\ Quiet
    /\ stateRun' = 0
    /\ UNCHANGED <<legals, role, playing, src, dst, pageVars, dragging, opened, notices, reqMove>>

\* parseInfo(args): role, its text and the orientation are written first;
\* args[2].split throws a TypeError when the frame has no third token, after
\* those writes and before legals is assigned.
parseInfo(args) ==
    LET r == parseRole(IF Len(args) >= 2 THEN args[2] ELSE Undefined)
    IN  /\ role' = r
        /\ roleText' = RoleText(r, roleText)
        /\ orientation' = RoleOrientation(r, role, orientation)
        /\ IF Len(args) >= 3
           THEN legals' = SplitLegals(args[3]) /\ thrown' = FALSE
           ELSE legals' = legals /\ thrown' = TRUE
        /\ UNCHANGED <<playing, boardPos, movesText, statusText>>

\* parseState(args) cut short after its first statement: the position is
\* set, the history and the status are left for later.
parseStatePositionOnly(args) ==
    /\ boardPos' = args[2]
    /\ thrown' = FALSE
    /\ UNCHANGED <<movesText, playing, statusText, legals, role, roleText, orientation>>

\* parseState(args): the position, then the history, then the status.
\* parseHistory(undefined) throws a TypeError (s.split) after the position
\* was set; parseStatus(undefined) falls to the default of its first switch.
parseState(args) ==
    /\ boardPos' = args[2]
    /\ IF Len(args) >= 3
       THEN LET s == IF Len(args) >= 4 THEN args[4] ELSE Undefined
                p == StatusPlaying(s)
            IN  /\ movesText' = parseHistory(args[3])
                /\ playing' = p
                /\ statusText' = StatusText(s, p, statusText)
                /\ thrown' = FALSE
       ELSE /\ UNCHANGED <<movesText, playing, statusText>>
            /\ thrown' = TRUE
    /\ UNCHANGED <<legals, role, roleText, orientation>>

\* socketMessaged(msg) with a switch that takes every token other than
\* "state" for "info".
socketMessagedDefaultInfo(args) ==
    /\ socket = "open"
    /\ IF args[1] = "state" THEN parseState(args) ELSE parseInfo(args)
    /\ sent' = <<>>
    /\ action' = "none"
    /\ stateRun' = IF args[1] = "state" /\ Len(args) = 4
                   THEN (IF stateRun < MaxRun THEN stateRun + 1 ELSE MaxRun)
                   ELSE 0
    /\ UNCHANGED <<src, dst, socket, draggablePieces, promoteVisible, portraits,
                   dragging, opened, notices, reqMove>>

\* socketMessaged(msg): the switch on args[0]; any other token matches no case.
socketMessaged(args) ==
    /\ socket = "open"
    /\ CASE args[1] = "info" -> parseInfo(args)
         [] args[1] = "state" -> parseState(args)
         [] OTHER -> /\ thrown' = FALSE
                     /\ UNCHANGED <<legals, role, playing, boardPos, orientation,
                                    movesText, statusText, roleText>>
    /\ sent' = <<>>
    /\ action' = "none"
    /\ stateRun' = IF args[1] = "state" /\ Len(args) = 4
                   THEN (IF stateRun < MaxRun THEN stateRun + 1 ELSE MaxRun)
                   ELSE 0
    /\ UNCHANGED <<src, dst, socket, draggablePieces, promoteVisible, portraits,
                   dragging, opened, notices, reqMove>>


\* ------------------------------------------------------------------ gestures

\* The "move <move>" command of the drop handler and of promote.
MoveCommand(move) == "move " \o move

\* let move = src + dst, of the drop handler.
DroppedMoveSwapped(from, to) == to \o from
DroppedMove(from, to) == from \o to

\* $("board").draggablePieces while the pop-up is open: the drop handler
\* disables dragging when it opens the pop-up.
DraggableWhilePromotingKept == TRUE
DraggableWhilePromoting == FALSE

\* The board's own test on a press: it starts no drag, and fires no
\* "drag-start", while draggablePieces is false.
BoardStartsDragAlways == TRUE
BoardStartsDrag == draggablePieces

\* The user presses the piece on `sq'.  A press the board takes fires the
\* "drag-start" handler, which prevents the drag unless it is the client's
\* turn and the piece is of its colour; a press the board ignores runs no code
\* of the client.
DragStart(sq) ==
    /\ socket # Null
    /\ dragging = Null
    /\ boardPos[sq] # NoPiece
    /\ IF BoardStartsDrag
       THEN /\ dragging' = IF role # playing \/ parseRole(boardPos[sq][1]) # role
                           THEN Null
                           ELSE sq
            /\ action' = "none"
       ELSE /\ dragging' = Null
            /\ action' = "ignored"
    /\ sent' = <<>>
    /\ thrown' = FALSE
    /\ stateRun' = 0
    /\ UNCHANGED <<globalVars, pageVars, opened, notices, reqMove>>

\* The "drop" handler: the dragged piece is released on `target'.  Without a
\* call of setAction the board applies its default action, "drop", and the
\* piece stays on the target.
DropPiece(target) ==
    LET move == DroppedMove(dragging, target)
    IN  /\ dragging # Null
        /\ src' = dragging
        /\ dst' = target
        /\ dragging' = Null
        /\ IF move \in legals
           THEN /\ SocketSend(MoveCommand(move))
                /\ action' = "drop"
                /\ boardPos' = MovePiece(boardPos, dragging, target, "")
                /\ UNCHANGED <<draggablePieces, promoteVisible, portraits, reqMove>>
           ELSE /\ IF (move \o "q") \in legals
                   THEN /\ draggablePieces' = DraggableWhilePromoting
                        /\ promoteVisible' = TRUE
                        /\ portraits' = CASE role = ROLE.White -> "w"
                                          [] role = ROLE.Black -> "b"
                                          [] OTHER -> portraits
                        /\ reqMove' = move
                   ELSE UNCHANGED <<draggablePieces, promoteVisible, portraits, reqMove>>
                /\ sent' = <<>>
                /\ thrown' = FALSE
                /\ action' = "snapback"
                /\ boardPos' = boardPos
        /\ stateRun' = 0
        /\ UNCHANGED <<legals, role, playing, socket, orientation, movesText,
                       statusText, roleText, opened, notices>>

\* promote(piece): a click on one of the four buttons of the pop-up, which
\* take clicks only while the pop-up is visible.  $("board").move is handed an
\* object where the board takes "e7-e8" strings: the board either ignores it
\* or moves the piece.
promote(piece) ==
    /\ promoteVisible
    /\ promoteVisible' = FALSE
    /\ boardPos' \in {boardPos, MovePiece(boardPos, src, dst, piece)}
    /\ SocketSend(MoveCommand(src \o dst \o piece))
    /\ draggablePieces' = TRUE
    /\ action' = "none"
    /\ stateRun' = 0
    /\ reqMove' = Null
    /\ UNCHANGED <<globalVars, orientation, portraits, movesText, statusText,
                   roleText, dragging, opened, notices>>

\* $("join").onclick
JoinClick ==
    /\ socket # Null
    /\ SocketSend("play")
    /\ action' = "none"
    /\ stateRun' = 0
    /\ UNCHANGED <<globalVars, pageVars, dragging, opened, notices, reqMove>>

\* $("invite").onclick
InviteClick ==
    /\ socket # Null
    /\ SocketSend("invite")
    /\ action' = "none"
    /\ stateRun' = 0
    /\ UNCHANGED <<globalVars, pageVars, dragging, opened, notices, reqMove>>

\* $("flip").onclick
FlipClick ==
    /\ socket # Null
    /\ orientation' = IF orientation = "white" THEN "black" ELSE "white"
    /\ Quiet
    /\ stateRun' = 0
    /\ UNCHANGED <<globalVars, boardPos, draggablePieces, promoteVisible, portraits,
                   movesText, statusText, roleText, dragging, opened, notices, reqMove>>

\* ----------------------------------------------------------------- the codec

\* The commands the client's handlers put on the wire: a move (the drop
\* handler's and promote's), the join request and the invitation.
OutboundMoves ==
    { from \o to \o p : from \in Squares, to \in Squares, p \in {""} \cup PromotionPieces }
OutboundCommands ==
    { [kind |-> "move", move |-> m] : m \in OutboundMoves }
    \cup { [kind |-> "play"], [kind |-> "invite"] }

\* The text each handler builds for its command.
encode(c) == IF c.kind = "move" THEN MoveCommand(c.move) ELSE c.kind

\* text.split(" "), for the texts above: the tokens that, joined by single
\* spaces, give the text.
TokenTuples ==
    { <<"move", m>> : m \in OutboundMoves } \cup { <<"play">>, <<"invite">> }
Join(tokens) ==
    IF Len(tokens) = 1 THEN tokens[1] ELSE tokens[1] \o " " \o tokens[2]
split(text) == CHOOSE tokens \in TokenTuples : Join(tokens) = text

\* The command socketMessaged makes of a frame: its switch knows "info" and
\* "state"; of any other leading token it makes nothing.
decode(text) ==
    LET args == split(text)
    IN  CASE args[1] = "info" -> [kind |-> "info", role |-> args[2]]
          [] args[1] = "state" -> [kind |-> "state", position |-> args[2]]
          [] OTHER -> [kind |-> "none"]

\* The client's commands of the protocol: "legals", "move <move>" with
\* <move> two squares and an optional suffix among q, r, b, n, and "play";
\* with them the bare tokens and the "think <seconds>" of the engine's
\* controls.
ClientCommand(text) ==
    \/ text \in {"legals", "play", "undo", "redo", "stop", "do"}
    \/ \E m \in OutboundMoves : text = "move " \o m
    \/ \E d \in Durations : text = "think " \o d

\* ---------------------------------------------------------------- the client

\* A step of the legacy client: the other clients stay as they are.
TokenOnly == UNCHANGED <<componentVars, finalVars, canvasVars>>

Next ==
    \/ WindowLoad /\ TokenOnly
    \/ SocketOpened /\ TokenOnly
    \/ SocketClosed /\ TokenOnly
    \/ (\E args \in InfoFrames : socketMessaged(args)) /\ TokenOnly
    \/ (\E args \in StateFrames : socketMessaged(args)) /\ TokenOnly
    \/ (\E args \in UnknownFrames : socketMessaged(args)) /\ TokenOnly
    \/ (\E args \in ShortInfoFrames : socketMessaged(args)) /\ TokenOnly
    \/ (\E args \in ShortStateFrames : socketMessaged(args)) /\ TokenOnly
    \/ (\E sq \in Squares : DragStart(sq)) /\ TokenOnly
    \/ (\E target \in Targets : DropPiece(target)) /\ TokenOnly
    \/ (\E piece \in PromotionPieces : promote(piece)) /\ TokenOnly
    \/ JoinClick /\ TokenOnly
    \/ InviteClick /\ TokenOnly
    \/ FlipClick /\ TokenOnly

Spec == Init /\ [][Next]_allVars

\* The same client with a user who only watches: the socket's events and the
\* frames of every kind, those with a status code or a move list the client
\* has no case for included.
NextInbound ==
    \/ WindowLoad /\ TokenOnly
    \/ SocketOpened /\ TokenOnly
    \/ SocketClosed /\ TokenOnly
    \/ (\E args \in InfoFrames : socketMessaged(args)) /\ TokenOnly
    \/ (\E args \in StateFrames : socketMessaged(args)) /\ TokenOnly
    \/ (\E args \in CodedStateFrames : socketMessaged(args)) /\ TokenOnly
    \/ (\E args \in UnknownFrames : socketMessaged(args)) /\ TokenOnly
    \/ (\E args \in ShortInfoFrames : socketMessaged(args)) /\ TokenOnly
    \/ (\E args \in ShortStateFrames : socketMessaged(args)) /\ TokenOnly
    \/ (\E args \in BadMoveFrames : socketMessaged(args)) /\ TokenOnly

SpecInbound == Init /\ [][NextInbound]_allVars


\* ------------------------------------------- the Svelte Board: its handlers

\* if (property in data) variable = data[property]: the field when the object
\* has it, else the variable's old value.
FieldOrCleared(data, property, old) ==
    IF property \in DOMAIN data THEN data[property]
    ELSE IF property \in {"engineMove", "engineDepth"} THEN Null ELSE old
FieldOr(data, property, old) ==
    IF property \in DOMAIN data THEN data[property] ELSE old

\* JSON.stringify of the objects the component sends: {kind}, {kind, move}
\* and {kind, seconds}, the seconds being kept as their JSON text.
JSONStringify(data) ==
    "{\"kind\":\"" \o data.kind \o "\""
    \o (IF "move" \in DOMAIN data THEN ",\"move\":\"" \o data.move \o "\"" ELSE "")
    \o (IF "seconds" \in DOMAIN data THEN ",\"seconds\":" \o data.seconds ELSE "")
    \o "}"

\* send(data) by a handler that does nothing else observable: ws.send throws
\* a TypeError while ws is undefined and an InvalidStateError while the
\* socket is connecting.
send(data) ==
    /\ sent' = IF ws \in {Undefined, "connecting"} THEN <<>> ELSE <<JSONStringify(data)>>
    /\ thrown' = (ws \in {Undefined, "connecting"})

\* The oracle of the chess-wasm library, which is given the FEN and the end
\* flag by chess.setPosition: the moves it takes for legal, and which of them
\* it takes for promotions.
OracleMoves(f) ==
    CASE f = StartFen -> {<<"e2", "e4">>}
      [] f = PushedFen -> {<<"e7", "e8">>}
      [] f = PromoteFen -> {<<"e7", "e8">>}
      [] OTHER -> {}
isLegal(from, to) == ~chess.end /\ <<from, to>> \in OracleMoves(chess.fen)
isPromotion(from, to) == chess.fen = PromoteFen /\ to = "e8"

\* onMount, once the wasm module has been awaited: the oracle is created, on
\* the start position, and then the socket.
onMount ==
    /\ ws = Undefined
    /\ chess' = [created |-> TRUE, fen |-> StartFen, end |-> FALSE]
    /\ ws' = "connecting"
    /\ opened' = opened + 1
    /\ Quiet
    /\ UNCHANGED <<fen, history, end, thinking, engineMove, engineDepth, board,
                   flipped, expando, lastData, notices>>

\* The connection is established; the component registers no onopen handler.
Board_SocketOpened ==
    /\ ws = "connecting"
    /\ ws' = "open"
    /\ Quiet
    /\ UNCHANGED <<fen, history, end, thinking, engineMove, engineDepth, chess,
                   board, flipped, expando, lastData, opened, notices>>

\* ws.onclose: the alert.
Board_SocketClosed ==
    /\ ws \in {"connecting", "open"}
    /\ ws' = "closed"
    /\ notices' = notices + 1
    /\ Quiet
    /\ UNCHANGED <<fen, history, end, thinking, engineMove, engineDepth, chess,
                   board, flipped, expando, lastData, opened>>

\* socketMessaged(msg), msg.data parsing to `data': the fields the object has
\* are assigned, and with a fen the oracle and the board are given the
\* position (the oracle with the end flag just assigned).
Board_socketMessaged(data) ==
    /\ ws = "open"
    /\ history' = FieldOr(data, "history", history)
    /\ end' = FieldOr(data, "end", end)
    /\ thinking' = FieldOr(data, "thinking", thinking)
    /\ engineMove' = FieldOr(data, "engineMove", engineMove)
    /\ engineDepth' = FieldOr(data, "engineDepth", engineDepth)
    /\ IF "fen" \in DOMAIN data
       THEN /\ fen' = data.fen
            /\ chess' = [created |-> TRUE, fen |-> data.fen, end |-> end']
            /\ board' = FenPlacement(data.fen)
       ELSE UNCHANGED <<fen, chess, board>>
    /\ lastData' = data
    /\ Quiet
    /\ UNCHANGED <<ws, flipped, expando, opened, notices>>

\* socketMessaged(msg) when msg.data is no JSON text: JSON.parse throws a
\* SyntaxError, which escapes the handler.
Board_socketMessagedUnparsable ==
    /\ ws = "open"
    /\ lastData' = Unparsable
    /\ sent' = <<>>
    /\ thrown' = TRUE
    /\ action' = "none"
    /\ UNCHANGED <<fen, history, end, thinking, engineMove, engineDepth, ws, chess,
                   board, flipped, expando, opened, notices>>

\* dropPiece(e): the piece shown on `from' is released on `to'.  Any piece can
\* be dragged at any time.  The oracle is asked unless the target is off the
\* board; chess.isLegal on the undefined oracle throws a TypeError, after
\* which the board applies its default action as it does after a send.
dropPiece(from, to) ==
    /\ board[from] # NoPiece
    /\ IF to = Offboard
       THEN /\ action' = "snapback"
            /\ sent' = <<>>
            /\ thrown' = FALSE
            /\ board' = board
       ELSE IF ~chess.created
       THEN /\ action' = "drop"
            /\ sent' = <<>>
            /\ thrown' = TRUE
            /\ board' = MovePiece(board, from, to, "")
       ELSE IF ~isLegal(from, to)
       THEN /\ action' = "snapback"
            /\ sent' = <<>>
            /\ thrown' = FALSE
            /\ board' = board
       ELSE /\ action' = "drop"
            /\ send([kind |-> "play",
                     move |-> IF isPromotion(from, to) THEN from \o to \o "q"
                              ELSE from \o to])
            /\ board' = MovePiece(board, from, to, "")
    /\ UNCHANGED <<fen, history, end, thinking, engineMove, engineDepth, ws, chess,
                   flipped, expando, lastData, opened, notices>>

\* A button that sends {kind} and does nothing else.
CommandClickOptimistic(data) ==
    /\ send(data)
    /\ action' = "none"
    /\ thinking' = (IF data.kind \in {"think", "thinkdo"} THEN TRUE ELSE thinking)
    /\ UNCHANGED <<fen, history, end, engineMove, engineDepth, ws, chess, board,
                   flipped, expando, lastData, opened, notices>>
CommandClick(data) ==
    /\ send(data)
    /\ action' = "none"
    /\ UNCHANGED <<componentVars, opened, notices>>

\* The buttons of the template; the engine's are rendered by its {#if} blocks.
UndoClick == CommandClick([kind |-> "undo"])
RedoClick == CommandClick([kind |-> "redo"])
ThinkClick == ~end /\ ~thinking /\ CommandClick([kind |-> "think", seconds |-> "5"])
StopClickEndsThinking ==
    /\ ~end /\ thinking
    /\ send([kind |-> "stop"])
    /\ action' = "none"
    /\ thinking' = FALSE
    /\ UNCHANGED <<fen, history, end, engineMove, engineDepth, ws, chess, board,
                   flipped, expando, lastData, opened, notices>>
StopClick == ~end /\ thinking /\ CommandClick([kind |-> "stop"])
DoClickWithoutMove == ~end /\ ~thinking /\ CommandClick([kind |-> "do"])
DoClick == ~end /\ ~thinking /\ engineMove # Null /\ CommandClick([kind |-> "do"])

\* The flip button: board.flip().
Board_FlipClick ==
    /\ flipped' = ~flipped
    /\ Quiet
    /\ UNCHANGED <<fen, history, end, thinking, engineMove, engineDepth, ws, chess,
                   board, expando, lastData, opened, notices>>

\* A step of the component: the other clients stay as they are.
BoardOnly == UNCHANGED <<tokenVars, finalVars, canvasVars>>

NextBoard ==
    \/ onMount /\ BoardOnly
    \/ Board_SocketOpened /\ BoardOnly
    \/ Board_SocketClosed /\ BoardOnly
    \/ (\E data \in Pushes : Board_socketMessaged(data)) /\ BoardOnly
    \/ Board_socketMessagedUnparsable /\ BoardOnly
    \/ (\E from \in Squares, to \in Targets : dropPiece(from, to)) /\ BoardOnly
    \/ UndoClick /\ BoardOnly
    \/ RedoClick /\ BoardOnly
    \/ ThinkClick /\ BoardOnly
    \/ StopClick /\ BoardOnly
    \/ DoClick /\ BoardOnly
    \/ Board_FlipClick /\ BoardOnly

SpecBoard == Init /\ [][NextBoard]_allVars


\* --------------------------------------- the first draft of the component

\* The properties the draft's handler copies from a push.
properties == {"fen", "history", "end", "thinking", "engineMove", "engineDepth"}

\* this[property] = data[property] for each property the object has.  The
\* handler is called as ws.onmessage, so `this' is the WebSocket: the values
\* become properties of the socket.
AssignThroughThis(old, data) ==
    [ q \in DOMAIN old \cup (properties \cap DOMAIN data) |->
        IF q \in DOMAIN data THEN data[q] ELSE old[q] ]

\* socketMessaged(msg) of the draft: the component's variables are not
\* written; with a fen the oracle is given it with the component's `end', and
\* the board is given its placement.
Draft_socketMessaged(data) ==
    /\ ws = "open"
    /\ expando' = AssignThroughThis(expando, data)
    /\ IF "fen" \in DOMAIN data
       THEN /\ chess' = [created |-> TRUE, fen |-> data.fen, end |-> end]
            /\ board' = FenPlacement(data.fen)
       ELSE UNCHANGED <<chess, board>>
    /\ lastData' = data
    /\ Quiet
    /\ UNCHANGED <<fen, history, end, thinking, engineMove, engineDepth, ws,
                   flipped, opened, notices>>

\* The connection closes; the draft registers no onclose handler.
Draft_SocketClosed ==
    /\ ws \in {"connecting", "open"}
    /\ ws' = "closed"
    /\ Quiet
    /\ UNCHANGED <<fen, history, end, thinking, engineMove, engineDepth, chess,
                   board, flipped, expando, lastData, opened, notices>>

\* A piece is dragged from `from' to `to'; the draft listens to no drop, so
\* the board applies its defaults: the piece stays where it is released, and
\* snaps back when released off the board.
Draft_drop(from, to) ==
    /\ board[from] # NoPiece
    /\ action' = IF to = Offboard THEN "snapback" ELSE "drop"
    /\ board' = IF to = Offboard THEN board ELSE MovePiece(board, from, to, "")
    /\ sent' = <<>>
    /\ thrown' = FALSE
    /\ UNCHANGED <<fen, history, end, thinking, engineMove, engineDepth, ws, chess,
                   flipped, expando, lastData, opened, notices>>

\* The draft has the onMount, the JSON.parse and the flip button of the later
\* component.
NextDraft ==
    \/ onMount /\ BoardOnly
    \/ Board_SocketOpened /\ BoardOnly
    \/ Draft_SocketClosed /\ BoardOnly
    \/ (\E data \in Pushes : Draft_socketMessaged(data)) /\ BoardOnly
    \/ Board_socketMessagedUnparsable /\ BoardOnly
    \/ (\E from \in Squares, to \in Targets : Draft_drop(from, to)) /\ BoardOnly
    \/ Board_FlipClick /\ BoardOnly

SpecDraft == Init /\ [][NextDraft]_allVars


\* ----------------------------------- the later Svelte Board: its handlers

\* onReceive(msg), msg.data parsing to `data': every field is assigned, a
\* pending promotion is dropped, and the oracle and the board are given the
\* position.
onReceive(data) ==
    /\ ws = "open"
    /\ history' = data.history
    /\ end' = data.end
    /\ thinking' = data.thinking
    /\ engineMove' = data.engineMove
    /\ engineDepth' = data.engineDepth
    /\ choosingPromotion' = FALSE
    /\ promoteMove' = Null
    /\ fen' = data.fen
    /\ chess' = [created |-> TRUE, fen |-> data.fen, end |-> data.end]
    /\ board' = FenPlacement(data.fen)
    /\ lastData' = data
    /\ Quiet
    /\ UNCHANGED <<ws, flipped, expando, seconds, opened, notices>>

\* onDropPiece(e): as dropPiece, but a promotion opens the pop-up instead of
\* sending; the handler sets no action then, so the piece stays on the target.
onDropPiece(from, to) ==
    /\ board[from] # NoPiece
    /\ IF to = Offboard
       THEN /\ action' = "snapback"
            /\ sent' = <<>>
            /\ thrown' = FALSE
            /\ board' = board
            /\ UNCHANGED <<choosingPromotion, promoteMove>>
       ELSE IF ~chess.created
       THEN /\ action' = "drop"
            /\ sent' = <<>>
            /\ thrown' = TRUE
            /\ board' = MovePiece(board, from, to, "")
            /\ UNCHANGED <<choosingPromotion, promoteMove>>
       ELSE IF ~isLegal(from, to)
       THEN /\ action' = "snapback"
            /\ sent' = <<>>
            /\ thrown' = FALSE
            /\ board' = board
            /\ UNCHANGED <<choosingPromotion, promoteMove>>
       ELSE IF isPromotion(from, to)
       THEN /\ action' = "drop"
            /\ choosingPromotion' = TRUE
            /\ promoteMove' = from \o to
            /\ sent' = <<>>
            /\ thrown' = FALSE
            /\ board' = MovePiece(board, from, to, "")
       ELSE /\ action' = "drop"
            /\ send([kind |-> "play", move |-> from \o to])
            /\ board' = MovePiece(board, from, to, "")
            /\ UNCHANGED <<choosingPromotion, promoteMove>>
    /\ UNCHANGED <<fen, history, end, thinking, engineMove, engineDepth, ws, chess,
                   flipped, expando, lastData, seconds, opened, notices>>

\* promote(piece) of the later component, a button of the pop-up shown while
\* choosingPromotion; promoteMove is cleared after the send, if it returns.
Final_promote(piece) ==
    /\ choosingPromotion
    /\ choosingPromotion' = FALSE
    /\ send([kind |-> "play", move |-> promoteMove \o piece])
    /\ promoteMove' = IF thrown' THEN promoteMove ELSE Null
    /\ action' = "none"
    /\ UNCHANGED <<componentVars, seconds, opened, notices>>

\* setDuration(secs), a button of the pop-up shown while seconds is null.
setDuration(secs) ==
    /\ seconds = Null
    /\ seconds' = secs
    /\ Quiet
    /\ UNCHANGED <<componentVars, choosingPromotion, promoteMove, opened, notices>>

\* The "Change Duration" button, rendered with the idle engine's controls
\* while seconds is not null.
ChangeDurationClick ==
    /\ ~end /\ ~thinking
    /\ seconds # Null
    /\ seconds' = Null
    /\ Quiet
    /\ UNCHANGED <<componentVars, choosingPromotion, promoteMove, opened, notices>>

\* The think and think-and-do buttons of the later template, which send the
\* variable `seconds'.
Final_ThinkClick ==
    ~end /\ ~thinking /\ CommandClick([kind |-> "think", seconds |-> seconds])
ThinkDoClick ==
    ~end /\ ~thinking /\ CommandClick([kind |-> "thinkdo", seconds |-> seconds])

\* A step of the later component that its earlier version has too: the
\* further variables stay as they are.
FinalKeeps == UNCHANGED <<finalVars, tokenVars, canvasVars>>
FinalOnly == UNCHANGED <<tokenVars, canvasVars>>

NextFinal ==
    \/ onMount /\ FinalKeeps
    \/ Board_SocketOpened /\ FinalKeeps
    \/ Board_SocketClosed /\ FinalKeeps
    \/ (\E data \in FullPushes : onReceive(data)) /\ FinalOnly
    \/ Board_socketMessagedUnparsable /\ FinalKeeps
    \/ (\E from \in Squares, to \in Targets : onDropPiece(from, to)) /\ FinalOnly
    \/ (\E piece \in PromotionPieces : Final_promote(piece)) /\ FinalOnly
    \/ (\E secs \in Durations : setDuration(secs)) /\ FinalOnly
    \/ ChangeDurationClick /\ FinalOnly
    \/ UndoClick /\ FinalKeeps
    \/ RedoClick /\ FinalKeeps
    \/ Final_ThinkClick /\ FinalKeeps
    \/ ThinkDoClick /\ FinalKeeps
    \/ StopClick /\ FinalKeeps
    \/ DoClick /\ FinalKeeps
    \/ Board_FlipClick /\ FinalKeeps

SpecFinal == Init /\ [][NextFinal]_allVars


\* ------------------------------------------- the canvas client: its handlers

\* new Square(x, y): the board square of the screen square <<x, y>>; the rank
\* is mirrored for White.
Square(x, y) ==
    <<"square", x, IF canvas_role = CanvasROLE.white THEN 7 - y ELSE y, x * 128, y * 128>>

\* Square.toString and Square.equals.
Files == <<"a", "b", "c", "d", "e", "f", "g", "h">>
Ranks == <<"1", "2", "3", "4", "5", "6", "7", "8">>
SquareToString(sq) == Files[sq[2] + 1] \o Ranks[sq[3] + 1]
SquareEquals(sq, other) == sq[2] = other[2] /\ sq[3] = other[3]

\* Whether a variable holds a Square (is truthy).
IsSquare(v) == v[1] = "square"

\* initBoard(): two pawns on an empty board.
InitialCanvasBoard ==
    [c \in {<<0, 6>>, <<0, 1>>} |-> IF c = <<0, 6>> THEN "wPawn" ELSE "bPawn"]

\* board[x][y]: the name of the piece there, if any.
PieceAt(x, y) ==
    IF <<x, y>> \in DOMAIN canvas_board THEN canvas_board[<<x, y>>] ELSE NoPieceName

\* initSocket(), the last statement of the script.
initSocket ==
    /\ canvas_socket = Undefined
    /\ canvas_socket' = "connecting"
    /\ opened' = opened + 1
    /\ Quiet
    /\ UNCHANGED <<canvas_role, select, validMoves, canvas_board, canvas_playing,
                   canvas_promote, atlas, console, notices>>

\* window.onload: the board is set up and the atlas image is requested.
Canvas_WindowLoad ==
    /\ canvas_socket # Undefined
    /\ atlas = "none"
    /\ atlas' = "loading"
    /\ canvas_board' = InitialCanvasBoard
    /\ Quiet
    /\ UNCHANGED <<canvas_socket, canvas_role, select, validMoves, canvas_playing,
                   canvas_promote, console, opened, notices>>

\* atlas.onload: the page is drawn and the canvas starts listening to clicks.
AtlasLoaded ==
    /\ atlas = "loading"
    /\ atlas' = "loaded"
    /\ Quiet
    /\ UNCHANGED <<canvas_socket, canvas_role, select, validMoves, canvas_board,
                   canvas_playing, canvas_promote, console, opened, notices>>

\* trySelect() of onCanvasClicked: whether the clicked square holds a piece of
\* the client's role, which it then selects.
SelectsOwn(sq) ==
    /\ PieceAt(sq[2], sq[3]) # NoPieceName
    /\ PieceRole(PieceAt(sq[2], sq[3])) = canvas_role

\* Whether the loop of tryMove finds `to' among the valid moves.
FindsMove(to) == \E k \in 1..Len(validMoves) : SquareEquals(to, validMoves[k])

\* onCanvasClicked(e), the click being on the screen square <<x, y>>.  With
\* promote set the handler calls compareSquares, which is not defined.  With a
\* square selected, trySelect runs first: on a piece of the client it moves
\* the selection to the clicked square and tryMove is called with that square
\* twice; elsewhere the selection is cleared.  tryMove moves a piece only to
\* a square of validMoves, and its send calls squareToString, which is not
\* defined either.
onCanvasClicked(x, y) ==
    LET sq == Square(x, y)
        piece == PieceAt(sq[2], sq[3])
    IN  /\ atlas = "loaded"
        /\ canvas_playing
        /\ console' = SquareToString(sq)
        /\ sent' = <<>>
        /\ action' = "none"
        /\ IF IsSquare(canvas_promote)
           THEN /\ thrown' = TRUE
                /\ UNCHANGED <<select, canvas_board, canvas_promote>>
           ELSE IF IsSquare(select) /\ SelectsOwn(sq)
           THEN /\ select' = sq
                /\ IF FindsMove(sq)
                   THEN IF \/ piece = "wPawn" /\ sq[3] = 7
                           \/ piece = "bPawn" /\ sq[3] = 0
                        THEN /\ canvas_board' = [c \in DOMAIN canvas_board \ {<<sq[2], sq[3]>>} |-> canvas_board[c]]
                             /\ canvas_promote' = sq
                             /\ thrown' = FALSE
                        ELSE /\ canvas_board' = canvas_board
                             /\ canvas_promote' = canvas_promote
                             /\ thrown' = TRUE
                   ELSE /\ thrown' = FALSE
                        /\ UNCHANGED <<canvas_board, canvas_promote>>
           ELSE /\ select' = IF IsSquare(select) THEN NullSquare
                             ELSE IF SelectsOwn(sq) THEN sq ELSE select
                /\ thrown' = FALSE
                /\ UNCHANGED <<canvas_board, canvas_promote>>
        /\ UNCHANGED <<canvas_socket, canvas_role, validMoves, canvas_playing, atlas,
                       opened, notices>>

\* socketOpened(): a greeting is logged and sent.
socketOpened ==
    /\ canvas_socket = "connecting"
    /\ canvas_socket' = "open"
    /\ console' = "Socket opened"
    /\ sent' = <<"Hello from web client">>
    /\ thrown' = FALSE
    /\ action' = "none"
    /\ UNCHANGED <<canvas_role, select, validMoves, canvas_board, canvas_playing,
                   canvas_promote, atlas, opened, notices>>

\* The frames the canvas client is sent.
CanvasFrames == {"info w e2e4", "role b", "update"}

\* socketMessaged(msg): the frame is logged.
Canvas_socketMessaged(data) ==
    /\ canvas_socket = "open"
    /\ console' = "Got a message: " \o data
    /\ Quiet
    /\ UNCHANGED <<canvas_socket, canvas_role, select, validMoves, canvas_board,
                   canvas_playing, canvas_promote, atlas, opened, notices>>

\* The connection closes; the client registers no onclose handler.
Canvas_SocketClosed ==
    /\ canvas_socket \in {"connecting", "open"}
    /\ canvas_socket' = "closed"
    /\ Quiet
    /\ UNCHANGED <<canvas_role, select, validMoves, canvas_board, canvas_playing,
                   canvas_promote, atlas, console, opened, notices>>

\* A step of the canvas client: the other clients stay as they are.
CanvasOnly == UNCHANGED <<tokenVars, componentVars, finalVars>>

NextCanvas ==
    \/ initSocket /\ CanvasOnly
    \/ Canvas_WindowLoad /\ CanvasOnly
    \/ AtlasLoaded /\ CanvasOnly
    \/ (\E x \in Coords, y \in Coords : onCanvasClicked(x, y)) /\ CanvasOnly
    \/ socketOpened /\ CanvasOnly
    \/ (\E data \in CanvasFrames : Canvas_socketMessaged(data)) /\ CanvasOnly
    \/ Canvas_SocketClosed /\ CanvasOnly

SpecCanvas == Init /\ [][NextCanvas]_allVars


\* ------------------------------------------------------------------ claims

\* Steps of the client by the kind of event handled.
StateFrameStep == \E args \in StateFrames : socketMessaged(args)
MalformedFrameStep ==
    \E args \in UnknownFrames \cup ShortInfoFrames \cup ShortStateFrames :
        socketMessaged(args)
PromoteStep == \E piece \in PromotionPieces : promote(piece)

\* What an inbound frame may write: GameState, role and LegalMoveSet with
\* their texts.
storeVars == <<legals, role, playing, boardPos, orientation, movesText,
               statusText, roleText>>

\* C1 (turn gating): a drop never sends a move command while the turn owner
\* differs from the client's role.  Stated of the state a drop leaves, which
\* has the role and turn owner the drop ran with.
C1_TurnGating ==
    (action # "none" /\ playing # role) => sent = <<>>

\* C2 (staleness): once two "state" updates in a row have been applied, no
\* promotion request opened before the first of them is left.
C2_Staleness ==
    stateRun >= 2 => (~promoteVisible /\ reqMove = Null)

\* C3: a "state" update arriving while a promotion choice is awaited closes
\* the request and sends nothing, and a piece selected after such an update
\* sends no move built from the discarded pair.
C3_DiscardOnUpdate ==
    [][ /\ (promoteVisible /\ StateFrameStep) => (~promoteVisible' /\ sent' = <<>>)
        /\ (stateRun >= 1 /\ PromoteStep) => sent' = <<>> ]_vars

\* C4: a drop from `from' to `to' on the client's turn, with from+to in the
\* legal-move set, sends exactly the one frame "move from+to" in that handler
\* run and opens no promotion request.
C4_LegalDropSends ==
    [][ \A t \in Targets :
          (dragging # Null /\ role = playing /\ (dragging \o t) \in legals /\ DropPiece(t))
          => /\ sent' = <<"move " \o dragging \o t>>
             /\ ~promoteVisible'
             /\ reqMove' = Null ]_vars

\* C4's case: white has dropped e2 on e4 on its turn and "move e2e4" went out.
C4_Witness ==
    /\ action = "drop"
    /\ role = ROLE.White /\ playing = ROLE.White
    /\ src = "e2" /\ dst = "e4" /\ "e2e4" \in legals
    /\ sent = <<"move e2e4">>

\* C5: selecting piece p while a promotion choice is awaited closes the
\* request and sends exactly the one frame "move from+to+p", from+to being
\* the pair the request was opened for.
C5_PromoteSends ==
    [][ \A p \in PromotionPieces :
          promote(p)
          => /\ ~promoteVisible'
             /\ reqMove' = Null
             /\ sent' = <<"move " \o reqMove \o p>> ]_vars

\* C5's case: e7 was dropped on e8, the rook was selected, "move e7e8r" went
\* out and the pop-up is closed.
C5_Witness ==
    /\ action = "none"
    /\ src = "e7" /\ dst = "e8"
    /\ sent = <<"move e7e8r">>
    /\ ~promoteVisible

\* A drop on `t' is an illegal gesture: off the board, out of turn, or a move
\* that is neither legal nor legal with a promotion suffix.
IllegalGesture(t) ==
    \/ t = Offboard
    \/ playing # role
    \/ /\ (dragging \o t) \notin legals
       /\ \A p \in PromotionPieces : (dragging \o t \o p) \notin legals

\* C6: an illegal gesture is rejected locally: nothing is sent, the piece
\* snaps back, and neither the store nor the pending promotion changes.
C6_IllegalRejected ==
    [][ \A t \in Targets :
          (dragging # Null /\ IllegalGesture(t) /\ DropPiece(t))
          => /\ sent' = <<>>
             /\ action' = "snapback"
             /\ UNCHANGED <<storeVars, promoteVisible, draggablePieces, reqMove>> ]_vars

\* C7: a malformed inbound frame is ignored: the store is unchanged and no
\* exception escapes the handler.
C7_MalformedIgnored ==
    [][ MalformedFrameStep => (UNCHANGED storeVars /\ ~thrown') ]_vars

\* C8: an "info" update is all-or-nothing: a well-formed one commits role and
\* legal moves together, one without a move list commits neither.
C8_AtomicApply ==
    [][ \A args \in InfoFrames \cup ShortInfoFrames :
          socketMessaged(args)
          => IF Len(args) = 3
             THEN role' = parseRole(args[2]) /\ legals' = SplitLegals(args[3])
             ELSE role' = role /\ legals' = legals ]_vars

\* C9: once the channel has closed the user has been shown exactly one
\* notice, and no frame leaves afterwards.
C9_ClosedNotifiedOnce ==
    (socket = "closed" /\ role # Null) => (notices = 1 /\ wire = <<>>)

\* C10: the session constructs at most one WebSocket, and none once the
\* channel has closed: a closed channel stays closed.
C10_NoReconnect ==
    /\ [](opened <= 1)
    /\ [][ socket = "closed" => (socket' = "closed" /\ opened' = opened) ]_vars

\* C10's case: the one channel of the session has closed and the user went on
\* pressing a button.
C10_Witness ==
    socket = "closed" /\ opened = 1 /\ sent = <<"play">>

\* Steps of the client that are gestures on the board.
GestureStep ==
    \/ \E sq \in Squares : DragStart(sq)
    \/ \E t \in Targets : DropPiece(t)

\* C11: at most one promotion request is live, and a gesture made while a
\* promotion choice is awaited is ignored: no piece is being dragged while
\* the pop-up is open, and a gesture then sends nothing, leaves the pending
\* pair and the pop-up as they are, and leaves no drag behind to be dropped
\* later.
C11_GestureIgnoredWhileAwaiting ==
    /\ [](promoteVisible => (dragging = Null /\ reqMove = src \o dst))
    /\ [][ (promoteVisible /\ GestureStep)
           => /\ sent' = <<>>
              /\ dragging' = Null
              /\ UNCHANGED <<src, dst, reqMove, promoteVisible>> ]_vars

\* C11's case: the pop-up is open for e7e8 and the board has just ignored a
\* press on a piece.
C11_Witness ==
    /\ promoteVisible /\ action = "ignored"
    /\ src = "e7" /\ dst = "e8" /\ reqMove = "e7e8"
    /\ dragging = Null /\ sent = <<>>

\* The promotion suffixes with which the pair dropped on `t' is legal.
LegalSuffixes(t) == { p \in PromotionPieces : (dragging \o t \o p) \in legals }

\* C12: when a drop opens a promotion request, the pieces offered are exactly
\* those p of q, r, b, n for which from+to+p is a legal move.
C12_OfferedAreLegal ==
    [][ \A t \in Targets :
          (dragging # Null /\ ~promoteVisible /\ DropPiece(t) /\ promoteVisible')
          => Offered' = LegalSuffixes(t) ]_vars

\* C13 (promotion completeness): a drop of a pair that is not legal itself
\* and is legal with at least one promotion suffix opens a promotion request
\* offering a non-empty subset of q, r, b, n.
C13_PromotionCompleteness ==
    [][ \A t \in Targets :
          (dragging # Null /\ (dragging \o t) \notin legals /\ LegalSuffixes(t) # {}
           /\ DropPiece(t))
          => /\ promoteVisible'
             /\ Offered' # {}
             /\ Offered' \subseteq PromotionPieces ]_vars

\* C14: the store is terminal exactly when it holds a terminal reason, and
\* then no one is to move: an update whose status code ends the game leaves
\* a reason and no turn owner, one whose code names a side to move leaves no
\* reason; between updates neither changes.
C14_TerminalConsistent ==
    [][ /\ \A args \in StateFrames :
             socketMessaged(args)
             => /\ TerminalStatus(args[4]) <=> terminalReason' # "None"
                /\ TerminalStatus(args[4]) => turnOwner' = Null
        /\ ~StateFrameStep => UNCHANGED <<playing, statusText>> ]_vars

\* C15 (idempotence of the terminal state): applying again the terminal
\* update that was applied last leaves no turn owner and the store as it was.
C15_TerminalIdempotent ==
    [][ \A args \in StateFrames :
          ( /\ stateRun >= 1
            /\ TerminalStatus(args[4])
            /\ turnOwner = Null \/ terminalReason # "None"
            /\ boardPos = args[2]
            /\ movesText = parseHistory(args[3])
            /\ socketMessaged(args) )
          => /\ turnOwner' = Null
             /\ UNCHANGED storeVars ]_vars

\* C15's case: the drawn game has been reported twice in a row.
C15_Witness ==
    /\ stateRun >= 2
    /\ turnOwner = Null
    /\ terminalReason = "Draw"
    /\ boardPos = PosPromote

\* A client handling an inbound frame that may carry a role.
InfoStep ==
    \E args \in InfoFrames \cup ShortInfoFrames \cup BadMoveFrames : socketMessaged(args)
CanvasFrameStep == \E data \in CanvasFrames : Canvas_socketMessaged(data)

\* C19: the role is assigned by the remote peer alone: a client has no role
\* before its channel has opened, and its role changes only in a step that
\* handles an inbound frame; no gesture, button or initialisation sets it.
C19_RoleFromPeerOnly ==
    /\ [](socket = Null => role = Null)
    /\ [](canvas_socket \in {Undefined, "connecting"}
            => canvas_role \notin {CanvasROLE.white, CanvasROLE.black, CanvasROLE.guest})
    /\ [][ role' # role => InfoStep ]_allVars
    /\ [][ canvas_role' # canvas_role => CanvasFrameStep ]_allVars

\* C20: the legal-move set is not consulted against a stale position: a drop
\* made when a "state" update has just been applied, before any "info" frame
\* brought the legal moves of the new position, is rejected.
C20_NoStaleLegals ==
    [][ \A t \in Targets :
          (stateRun >= 1 /\ dragging # Null /\ DropPiece(t))
          => /\ sent' = <<>>
             /\ ~promoteVisible'
             /\ action' = "snapback" ]_vars

\* EngineStatus as the Svelte Board keeps it.
EngineStatus ==
    [thinking |-> thinking, engineMove |-> engineMove, engineDepth |-> engineDepth]

\* A push handled by the Svelte Board, and one carrying neither a suggested
\* move nor a depth.
PushStep == \E data \in Pushes : Board_socketMessaged(data)
BarePushStep ==
    \E data \in Pushes :
        /\ "engineMove" \notin DOMAIN data
        /\ "engineDepth" \notin DOMAIN data
        /\ Board_socketMessaged(data)

\* C16: the suggested move and the depth are sticky: a push carrying neither
\* leaves both as they are, whatever it does to `thinking', and no step other
\* than a push changes them.
C16_EngineResultSticky ==
    [][ /\ BarePushStep => UNCHANGED <<engineMove, engineDepth>>
        /\ ~PushStep => UNCHANGED <<engineMove, engineDepth>> ]_allVars

\* C16's case: the engine was thinking with a suggestion at depth 3, and the
\* push that ended the thinking carried nothing else.
C16_Witness ==
    /\ lastData = [thinking |-> FALSE]
    /\ thinking = FALSE
    /\ engineMove = "e2e4"
    /\ engineDepth = "3"

\* The last ply of a pushed history, or Null for an empty one.
LastPly(h) == IF Len(h) = 0 THEN Null ELSE h[Len(h)]

\* C17: a push that changes the position, otherwise than by the suggested
\* move having been played, leaves neither a suggested move nor a depth.
C17_ClearedOnPositionChange ==
    [][ \A data \in Pushes :
          ( /\ "fen" \in DOMAIN data
            /\ data.fen # fen
            /\ LastPly(data.history) # engineMove
            /\ Board_socketMessaged(data) )
          => (engineMove' = Null /\ engineDepth' = Null) ]_allVars

\* The fields of EngineStatus an object carries.
EngineFields(data) == {"thinking", "engineMove", "engineDepth"} \cap DOMAIN data

\* C18: after each push EngineStatus has exactly the values pushed: each of
\* its fields the last push carried has the value that push carried.
C18_EngineStatusReflectsPush ==
    \A f \in EngineFields(lastData) : EngineStatus[f] = lastData[f]

\* What a button of the later component must leave alone: GameState,
\* EngineStatus, the pending promotion, the duration and the socket.
ButtonKeeps ==
    UNCHANGED <<fen, history, end, board, chess, thinking, engineMove, engineDepth,
                choosingPromotion, promoteMove, seconds, ws>>

\* C21: the flip button emits no command and changes only the orientation;
\* each of undo, redo, think, think-and-do, stop and do, pressed with the
\* channel open, emits exactly the one command of its kind and changes
\* nothing of GameState, EngineStatus or the pending move.
C21_CommandButtons ==
    [][ /\ Board_FlipClick
           => (sent' = <<>> /\ flipped' = ~flipped /\ ButtonKeeps)
        /\ (ws = "open" /\ UndoClick)
           => (sent' = <<"{\"kind\":\"undo\"}">> /\ ButtonKeeps /\ flipped' = flipped)
        /\ (ws = "open" /\ RedoClick)
           => (sent' = <<"{\"kind\":\"redo\"}">> /\ ButtonKeeps /\ flipped' = flipped)
        /\ (ws = "open" /\ Final_ThinkClick)
           => ( /\ sent' = <<"{\"kind\":\"think\",\"seconds\":" \o seconds \o "}">>
                /\ ButtonKeeps /\ flipped' = flipped )
        /\ (ws = "open" /\ ThinkDoClick)
           => ( /\ sent' = <<"{\"kind\":\"thinkdo\",\"seconds\":" \o seconds \o "}">>
                /\ ButtonKeeps /\ flipped' = flipped )
        /\ (ws = "open" /\ StopClick)
           => (sent' = <<"{\"kind\":\"stop\"}">> /\ ButtonKeeps /\ flipped' = flipped)
        /\ (ws = "open" /\ DoClick)
           => (sent' = <<"{\"kind\":\"do\"}">> /\ ButtonKeeps /\ flipped' = flipped)
      ]_allVars

\* C21's case: with the channel open and the engine idle, think-and-do was
\* pressed for three seconds; the engine is still shown idle.
C21_Witness ==
    /\ ws = "open"
    /\ sent = <<"{\"kind\":\"thinkdo\",\"seconds\":3}">>
    /\ seconds = "3"
    /\ ~thinking /\ ~end

\* C22: the position shown is driven by the authoritative updates alone: no
\* drop and no promotion choice changes the board; a piece reaches its
\* destination only in a step that applies an inbound "state" frame.
C22_NoOptimisticRender ==
    [][ /\ (GestureStep \/ PromoteStep) => boardPos' = boardPos
        /\ boardPos' # boardPos
           => \E args \in StateFrames \cup CodedStateFrames \cup ShortStateFrames :
                 socketMessaged(args)
      ]_vars

\* The store holds the whole of the "state" frame `f': its position, its
\* history and the turn owner and status text of its status code.
HoldsFrame(f) ==
    /\ boardPos = f[2]
    /\ movesText = parseHistory(f[3])
    /\ playing = (CASE f[4] = "w" -> ROLE.White [] f[4] = "b" -> ROLE.Black [] OTHER -> Null)

C24_ThinkEndsByPushOnly ==
    [][ /\ (thinking /\ ~thinking')
           => \E data \in Pushes :
                 /\ "thinking" \in DOMAIN data
                 /\ data.thinking = FALSE
                 /\ Board_socketMessaged(data)
        /\ StopClick => thinking' = thinking ]_allVars

\* C24's case: the stop command has gone out on the open channel and the
\* engine is still shown thinking.
C24_Witness ==
    /\ ws = "open"
    /\ sent = <<"{\"kind\":\"stop\"}">>
    /\ thinking = TRUE

\* C25 (round trip): decoding the encoding of a command gives the command
\* back: every frame the client has sent is the encoding of a command, and
\* the client's decoder makes that command of it.
C25_RoundTrip ==
    \A k \in 1..Len(sent) :
        \A c \in OutboundCommands :
            encode(c) = sent[k] => decode(encode(c)) = c

\* C26: every frame the client puts on the open channel is one command of
\* the client-to-server grammar; no other text is ever sent.
C26_OnlyGrammarFrames ==
    \A k \in 1..Len(wire) : ClientCommand(wire[k])

\* What a status code means: the side to move, or how the game ended.
CodeTurnOwner(c) ==
    CASE c = "w" -> ROLE.White [] c = "b" -> ROLE.Black [] OTHER -> Null
CodeReason(c) ==
    CASE c = "d" -> "Draw"
      [] c = "m" -> "CheckmateWhite"
      [] c = "M" -> "CheckmateBlack"
      [] OTHER -> "None"

\* C27: an update's status code is decoded as the alphabet says: w and b name
\* the side to move; d, m and M end the game, leaving no turn owner and the
\* reason of the code, which the status shown then tells.  Stated of a client
\* that has been given a role.
C27_StatusDecoded ==
    [][ \A args \in StateFrames \cup CodedStateFrames :
          (role # Null /\ socketMessaged(args))
          => /\ turnOwner' = CodeTurnOwner(args[4])
             /\ terminalReason' = CodeReason(args[4]) ]_vars

\* C28: a frame with an unknown leading token, with arguments missing, or
\* with a move list that holds no move, is a decode error: no exception leaves
\* the handler and nothing of the client's state is written.
C28_DecodeErrorNotApplied ==
    [][ \A args \in UnknownFrames \cup ShortInfoFrames \cup ShortStateFrames
                    \cup BadMoveFrames :
          socketMessaged(args) => (~thrown' /\ UNCHANGED <<globalVars, pageVars>>) ]_vars

\* What the handler of "info" writes, and what the handler of "state" writes.
infoVars == <<role, roleText, orientation, legals>>
stateVars == <<boardPos, movesText, playing, statusText>>

\* The frames of every kind.
AllFrames ==
    InfoFrames \cup StateFrames \cup CodedStateFrames \cup UnknownFrames
    \cup ShortInfoFrames \cup ShortStateFrames \cup BadMoveFrames

\* C29: the dispatcher routes on the leading token of the frame: an "info"
\* frame is handled by the role and legal-move handler alone, a "state" frame
\* by the position, history and status handler alone, and a frame with any
\* other leading token by neither.
C29_DispatchOnToken ==
    [][ \A args \in AllFrames :
          socketMessaged(args)
          => /\ args[1] = "info"
                => (role' = parseRole(args[2]) /\ UNCHANGED stateVars)
             /\ args[1] = "state"
                => (boardPos' = args[2] /\ UNCHANGED infoVars)
             /\ args[1] \notin {"info", "state"}
                => (UNCHANGED <<infoVars, stateVars>> /\ ~thrown') ]_vars

\* C29's case: a "state" frame and then an "info" frame have been handled:
\* the store has the position and turn of the one, the role and the legal
\* moves of the other.
C29_Witness ==
    /\ socket = "open" /\ stateRun = 0 /\ ~thrown
    /\ boardPos = PosPushed /\ playing = ROLE.Black
    /\ role = ROLE.Black
    /\ legals = {"e7e8q", "e7e8r", "e7e8b", "e7e8n"}

\* The component before its initialisation has completed: the oracle or the
\* socket is not created yet, or the socket has not opened.
BeforeReady == ~chess.created \/ ws \in {Undefined, "connecting"}

\* A press of a button that sends a command, and a drop, in the Svelte Board.
CommandButtonStep == UndoClick \/ RedoClick \/ ThinkClick \/ StopClick \/ DoClick
BoardDropStep == \E from \in Squares, to \in Targets : dropPiece(from, to)

\* C30: before the initialisation of the Svelte Board has completed, a
\* button press or a drop sends no frame and raises no fault.
C30_QuietBeforeReady ==
    [][ (BeforeReady /\ (CommandButtonStep \/ BoardDropStep))
        => (sent' = <<>> /\ ~thrown') ]_allVars

\* The frames of the engine's commands, as they leave the component.
DoFrame == "{\"kind\":\"do\"}"
StopFrame == "{\"kind\":\"stop\"}"
ThinkFrame(k, d) == "{\"kind\":\"" \o k \o "\",\"seconds\":" \o d \o "}"
ThinkFrames ==
    { ThinkFrame(k, d) : k \in {"think", "thinkdo"}, d \in Durations \cup {Null} }

\* C31: the engine's commands are gated by the state shown: a step sends
\* "do" only from a state with a suggested move, the engine idle and the game
\* not ended; "stop" only with the engine thinking and the game not ended;
\* "think" or "thinkdo" only with the engine idle and the game not ended.
C31_EngineCommandsGated ==
    [][ /\ sent' = <<DoFrame>> => (engineMove # Null /\ ~thinking /\ ~end)
        /\ sent' = <<StopFrame>> => (thinking /\ ~end)
        /\ (sent' # <<>> /\ sent'[1] \in ThinkFrames) => (~thinking /\ ~end)
      ]_allVars

\* C31's case: the engine is idle with a suggested move, the game goes on,
\* and "do" has left on the open channel.
C31_Witness ==
    /\ ws = "open"
    /\ sent = <<DoFrame>>
    /\ engineMove = "e2e4" /\ ~thinking /\ ~end

\* C32: every think or thinkdo frame carries a number of seconds among 1, 3,
\* 5 and 10: whatever "Change Duration" presses and duration choices came
\* before, no such frame with seconds null is sent.
C32_ThinkSecondsChosen ==
    \A k \in 1..Len(sent) :
        (ws = "open" /\ sent[k] \in ThinkFrames)
        => \E kind \in {"think", "thinkdo"}, d \in Durations : sent[k] = ThinkFrame(kind, d)


\* C33: once a terminal update (draw or checkmate) has been applied, and
\* until a later non-terminal update replaces it, no drop gesture emits a
\* move command and none opens a promotion request.
C33_NoMoveOnceEnded ==
    [][ \A t \in Targets :
          (terminalReason # "None" /\ turnOwner = Null /\ socket = "open" /\ DropPiece(t))
          => (sent' = <<>> /\ promoteVisible' = promoteVisible) ]_vars


\* --------------------------------------- what the pages render of a game

\* Further pieces, and two positions of an ended game: the white king on e2
\* checked along the file by a queen on e4, White to move; the black king on
\* e8 checked by a queen on e7, Black to move.
wK == <<"w", "K">>
bK == <<"b", "K">>
wQ == <<"w", "Q">>
bQ == <<"b", "Q">>
PosWhiteMated == Place(Place(EmptyBoard, "e2", wK), "e4", bQ)
PosBlackMated == Place(Place(EmptyBoard, "e8", bK), "e7", wQ)
WhiteMatedFen == <<PosWhiteMated, "w">>
BlackMatedFen == <<PosBlackMated, "b">>

\* The oracle of the chess-wasm library on the position it was last given:
\* whether the side to move is in check, and whether that side is White.
isInCheck == chess.fen \in {WhiteMatedFen, BlackMatedFen}
isWhiteToMove == chess.fen[2] = "w"

\* makeEndText() of the component, shown by the {#if end} block.
makeEndText ==
    IF isInCheck
    THEN IF isWhiteToMove THEN "White won by checkmate" ELSE "Black won by checkmate"
    ELSE "The game is drawn."

\* makeEndText() of the later component.
Final_makeEndText ==
    IF isInCheck
    THEN IF isWhiteToMove THEN "Black won by checkmate." ELSE "White won by checkmate."
    ELSE "The game is drawn."

\* makeHistory(history) of the component: the loop over i < history.length/2
\* appends the number and the ply at x = 2i, then the ply at y = x + 1 when
\* there is one, each followed by a space.
RECURSIVE MakeHistoryLoop(_, _, _)
MakeHistoryLoop(h, i, res) ==
    IF 2 * i < Len(h)
    THEN LET x == i * 2
             res1 == res \o ToString(i + 1) \o ". " \o h[x + 1] \o " "
             y == x + 1
         IN  MakeHistoryLoop(h, i + 1, IF y < Len(h) THEN res1 \o h[y + 1] \o " " ELSE res1)
    ELSE res
makeHistory(h) == MakeHistoryLoop(h, 0, "")

\* Array.prototype.join(" ").
RECURSIVE JoinSpace(_)
JoinSpace(parts) ==
    IF parts = <<>> THEN ""
    ELSE IF Len(parts) = 1 THEN parts[1]
    ELSE parts[1] \o " " \o JoinSpace(Tail(parts))

\* makeHistory(history) of the later component: map, with the number before
\* the plies of even index i, then join.
Final_makeHistory(h) ==
    JoinSpace([n \in 1..Len(h) |->
                 LET i == n - 1
                 IN  IF i % 2 = 0 THEN ToString(i \div 2 + 1) \o ". " \o h[n] ELSE h[n]])

\* $: historyText = makeHistory(history), of either component.
historyText == makeHistory(history)
Final_historyText == Final_makeHistory(history)

\* The games whose histories the server reports: every sequence of up to
\* MaxPlies plies over two move notations.
MaxPlies == 3
PlyNames == {"e2e4", "e7e5"}
Histories == UNION { [1..n -> PlyNames] : n \in 0..MaxPlies }

\* The history field of a "state" frame, cut at its commas: the server
\* writes a comma before every ply, so the first token is empty.
HistoryTokens(h) == <<"">> \o h

\* The frames and pushes that carry each history, and the pushes of the two
\* ended games and of a drawn one.
HistoryStateFrame(h) ==
    <<"state", PosStart, HistoryTokens(h), IF Len(h) % 2 = 0 THEN "w" ELSE "b">>
HistoryStateFrames == { HistoryStateFrame(h) : h \in Histories }
HistoryPushes == { [history |-> h] : h \in Histories }
EndPushes ==
    { [fen |-> WhiteMatedFen, history |-> <<"e2e4", "e7e5">>, end |-> TRUE],
      [fen |-> BlackMatedFen, history |-> <<"e2e4">>, end |-> TRUE],
      [fen |-> PromoteFen, history |-> <<"e2e4", "e7e5">>, end |-> TRUE],
      [fen |-> StartFen, history |-> <<>>, end |-> FALSE] }

\* The three clients, each receiving the histories and the ended games and
\* rendering them.
NextRender ==
    \/ WindowLoad /\ TokenOnly
    \/ SocketOpened /\ TokenOnly
    \/ (\E args \in HistoryStateFrames : socketMessaged(args)) /\ TokenOnly
    \/ onMount /\ BoardOnly
    \/ Board_SocketOpened /\ BoardOnly
    \/ (\E data \in HistoryPushes : Board_socketMessaged(data)) /\ BoardOnly
    \/ (\E data \in EndPushes : Board_socketMessaged(data)) /\ BoardOnly

SpecRender == Init /\ [][NextRender]_allVars


\* What an end text says, whatever its punctuation.
EndResult(text) ==
    CASE text \in {"White won by checkmate", "White won by checkmate."} -> "WhiteWon"
      [] text \in {"Black won by checkmate", "Black won by checkmate."} -> "BlackWon"
      [] text \in {"The game is drawn", "The game is drawn."} -> "Draw"
      [] OTHER -> "None"

\* The result of an ended game: the side to move, when in check, has lost.
ExpectedEndResult ==
    IF isInCheck THEN (IF isWhiteToMove THEN "BlackWon" ELSE "WhiteWon") ELSE "Draw"

\* C34: for an ended game makeEndText names the side that is not to move as
\* the winner by checkmate when the side to move is in check, and reports a
\* draw otherwise; the versions of makeEndText agree on every combination of
\* in-check and side to move.
C34_EndTextNamesWinner ==
    (end /\ chess.created)
    => /\ EndResult(makeEndText) = ExpectedEndResult
       /\ EndResult(Final_makeEndText) = EndResult(makeEndText)

\* The later makeEndText alone, against the same expectation.
LaterEndTextNamesWinner == (end /\ chess.created) => EndResult(Final_makeEndText) = ExpectedEndResult


\* The plies of a history with the number of each full move before its first
\* ply: <<"1.", h[1], h[2], "2.", h[3], ...>>.
Numbered(h) ==
    [p \in 1..(Len(h) + (Len(h) + 1) \div 2) |->
        LET g == (p - 1) \div 3
            o == (p - 1) % 3
        IN  CASE o = 0 -> ToString(g + 1) \o "."
              [] o = 1 -> h[2 * g + 1]
              [] o = 2 -> h[2 * g + 2]]

\* A text shows a history when it is those numbers and plies in that order,
\* a space apart, with or without a space at the end.
Renders(text, h) ==
    text \in {JoinSpace(Numbered(h)), JoinSpace(Numbered(h)) \o " "}

ValidMoveLists ==
    { <<>>,
      << <<"square", 0, 7>>, <<"square", 0, 0>> >>,
      << <<"square", 0, 2>> >> }

\* The valid destinations of the position are stored in validMoves; the
\* client's own socketMessaged logs the frame.
validMovesReceived(moves) ==
    /\ canvas_socket = "open"
    /\ validMoves' = moves
    /\ console' = "Got a message: legals"
    /\ Quiet
    /\ UNCHANGED <<canvas_socket, canvas_role, select, canvas_board, canvas_playing,
                   canvas_promote, atlas, opened, notices>>

NextCanvasMoves ==
    \/ initSocket /\ CanvasOnly
    \/ Canvas_WindowLoad /\ CanvasOnly
    \/ AtlasLoaded /\ CanvasOnly
    \/ (\E x \in Coords, y \in Coords : onCanvasClicked(x, y)) /\ CanvasOnly
    \/ socketOpened /\ CanvasOnly
    \/ (\E moves \in ValidMoveLists : validMovesReceived(moves)) /\ CanvasOnly
    \/ Canvas_SocketClosed /\ CanvasOnly

SpecCanvasMoves == Init /\ [][NextCanvasMoves]_allVars

\* The selection after a click: no square, or a square with a piece of the
\* client on it.
SelectionEmptyOrOwn ==
    IsSquare(select) => PieceRole(PieceAt(select[2], select[3])) = canvas_role
                        /\ PieceAt(select[2], select[3]) # NoPieceName

\* tryMove(from, to) on a valid destination takes the piece off `from'.
MovedFrom(from) == <<from[2], from[3]>> \notin DOMAIN canvas_board'

====
